---- MODULE Spec2Model ----
(***************************************************************************)
(* Resilience and job-orchestration control plane of AI-UI-Generator:      *)
(* the circuit breaker (services/circuit_breaker.py), the sliding-window   *)
(* rate limiter (services/rate_limiter.py), the retried generation call    *)
(* (services/llm_service.py) and the background job (server.py).           *)
(*                                                                         *)
(* Time is an integer clock `now` (one unit = one second of time.time()).  *)
(* The process runs on one asyncio event loop, so code between two awaits  *)
(* is one atomic step.                                                     *)
(***************************************************************************)
EXTENDS Integers, Sequences, FiniteSets

\* ------------------------------------------------------------------ bounds
MaxTime == 5
MaxThreshold == 3
MaxTimeout == 2
MaxFailureCount == 4
MaxRequests == 2
MaxWindow == 2
ClockSkew == 1
MaxOverflow == 2
NumJobs == 2
MaxJobTime == 4
MaxCheckTime == 4

\* ------------------------------------------------------- program constants
\* Optional[float] = None (circuit_breaker.py:33); the clock is never negative
None == -1
\* record_success closes the circuit after this many half-open successes
CloseAfter == 2
\* tenacity: stop_after_attempt(3), wait_exponential(multiplier=1, min=1, max=10)
MaxAttempts == 3
WaitMultiplier == 1
WaitMin == 1
WaitMax == 10
\* check_rate_limit's default window_seconds; check_outbound_rate_limit's policy
InboundWindow == 60
OutboundMax == 5
OutboundWindow == 1

VARIABLES
    now,        \* time.time()
    cb,         \* the CircuitBreaker instance (llm_circuit_breaker)
    call,       \* the last breaker method called: op, result, breaker before it, time
    prev,       \* the breaker call before `call`
    streak,     \* record_failure calls since the streak last restarted
    opens,      \* CLOSED -> OPEN transitions since the streak last restarted
    probes,     \* record_success calls since the breaker last became half-open
    max_requests_per_minute,    \* RateLimiter: MAX_REQUESTS_PER_MINUTE
    requests,   \* RateLimiter.requests: identifier -> list of timestamps
    policy,     \* the max_requests and window_seconds the callers pass
    check,      \* the last check_rate_limit call: arguments, clock readings, result
    burst,      \* per identifier: start and number of the calls of the current burst
    client_configured,  \* LLMService.client is not None (OPENAI_API_KEY is set)
    store,      \* generations_collection: job_id -> document
    pc,         \* per job: where its request handler / background task stands
    attempt,    \* per job: tenacity's attempt_number
    wake,       \* per job: when its backoff sleep ends
    gen,        \* per job: how its generate_ui_code call ended
    log,        \* per job: what each attempt of generate_ui_code did
    writes,     \* per job: the terminal-status updates its task has issued
    trace       \* per job and attempt: the breaker's answer, whether the API was
                \* called, what was recorded on the breaker

cbVars == <<cb, call, prev, streak, opens, probes>>
rlVars == <<max_requests_per_minute, requests, policy, check, burst>>
jobVars == <<client_configured, store, pc, attempt, wake, gen, log, writes, trace>>
vars == <<now, cb, call, prev, streak, opens, probes,
          max_requests_per_minute, requests, policy, check, burst,
          client_configured, store, pc, attempt, wake, gen, log, writes, trace>>

CircuitState == {"closed", "open", "half_open"}

\* ---------------------------------------------------------- CircuitBreaker
\* __init__: the configured threshold and timeout, the counters at 0, CLOSED
CircuitBreaker(threshold, timeout) ==
    [ failure_threshold |-> threshold,
      timeout_seconds   |-> timeout,
      failure_count     |-> 0,
      last_failure_time |-> None,
      state             |-> "closed",
      success_count     |-> 0 ]

\* faulty variant: opening keeps the successes counted by the probes
open_circuit_keeps_successes(b) == [b EXCEPT !.state = "open"]

open_circuit(b) == [b EXCEPT !.state = "open", !.success_count = 0]

close_circuit(b) ==
    [b EXCEPT !.state = "closed", !.failure_count = 0, !.success_count = 0]

half_open_circuit(b) == [b EXCEPT !.state = "half_open", !.success_count = 0]

\* faulty variant: a success while CLOSED leaves the failure streak standing
record_success_keeps_streak(b) ==
    IF b.state = "half_open"
    THEN LET b1 == [b EXCEPT !.success_count = @ + 1]
         IN  IF b1.success_count >= CloseAfter THEN close_circuit(b1) ELSE b1
    ELSE b

\* faulty variant: a single half-open success closes the circuit
record_success_closes_at_once(b) ==
    IF b.state = "half_open"
    THEN close_circuit([b EXCEPT !.success_count = @ + 1])
    ELSE IF b.state = "closed" THEN [b EXCEPT !.failure_count = 0] ELSE b

record_success(b) ==
    IF b.state = "half_open"
    THEN LET b1 == [b EXCEPT !.success_count = @ + 1]
         IN  IF b1.success_count >= CloseAfter THEN close_circuit(b1) ELSE b1
    ELSE IF b.state = "closed" THEN [b EXCEPT !.failure_count = 0] ELSE b

\* faulty variant: an OPEN breaker that keeps failing past the threshold is closed
record_failure_recloses(b, t) ==
    LET b1 == [b EXCEPT !.failure_count = @ + 1, !.last_failure_time = t]
    IN  IF b1.state = "half_open" THEN open_circuit(b1)
        ELSE IF b1.state = "open" /\ b1.failure_count > b1.failure_threshold
             THEN close_circuit(b1)
        ELSE IF b1.failure_count >= b1.failure_threshold THEN open_circuit(b1)
        ELSE b1

record_failure(b, t) ==
    LET b1 == [b EXCEPT !.failure_count = @ + 1, !.last_failure_time = t]
    IN  IF b1.state = "half_open" THEN open_circuit(b1)
        ELSE IF b1.failure_count >= b1.failure_threshold THEN open_circuit(b1)
        ELSE b1

\* Python truthiness of `self.last_failure_time`: None and 0.0 are falsy
Truthy(x) == x # None /\ x # 0

\* faulty variant: the timeout must be strictly exceeded
can_execute_strict(b, t) ==
    IF b.state = "closed" THEN [cb |-> b, ret |-> TRUE]
    ELSE IF b.state = "open"
    THEN IF Truthy(b.last_failure_time)
            /\ (t - b.last_failure_time) > b.timeout_seconds
         THEN [cb |-> half_open_circuit(b), ret |-> TRUE]
         ELSE [cb |-> b, ret |-> FALSE]
    ELSE [cb |-> b, ret |-> TRUE]

\* can_execute: the breaker after the call and the value returned
can_execute(b, t) ==
    IF b.state = "closed" THEN [cb |-> b, ret |-> TRUE]
    ELSE IF b.state = "open"
    THEN IF Truthy(b.last_failure_time)
            /\ (t - b.last_failure_time) >= b.timeout_seconds
         THEN [cb |-> half_open_circuit(b), ret |-> TRUE]
         ELSE [cb |-> b, ret |-> FALSE]
    ELSE [cb |-> b, ret |-> TRUE]

\* -------------------------------------------------------------- RateLimiter
Identifiers == {"10.0.0.1", "outbound:llm"}

\* __init__: requests = defaultdict(list)
RateLimiter == [i \in Identifiers |-> << >>]

\* faulty variant: a timestamp exactly window_seconds old is kept
clean_old_requests_keeps_boundary(reqs, identifier, window_seconds, current_time) ==
    LET window_start == current_time - window_seconds
        Recent(ts) == ts >= window_start
    IN  [reqs EXCEPT ![identifier] = SelectSeq(reqs[identifier], Recent)]

\* _clean_old_requests; current_time is its own reading of the clock
clean_old_requests(reqs, identifier, window_seconds, current_time) ==
    LET window_start == current_time - window_seconds
        Recent(ts) == ts > window_start
    IN  [reqs EXCEPT ![identifier] = SelectSeq(reqs[identifier], Recent)]

\* Python's `max_requests or self.max_requests_per_minute`: None and 0 are falsy
OrDefault(max_requests, default) ==
    IF max_requests = None \/ max_requests = 0 THEN default ELSE max_requests

\* faulty variant: the request that fills the window is counted as over it
check_rate_limit_off_by_one(reqs, default, identifier, max_requests, window_seconds, current_time, clean_time) ==
    LET max == OrDefault(max_requests, default)
        cleaned == clean_old_requests(reqs, identifier, window_seconds, clean_time)
        request_count == Len(cleaned[identifier])
    IN  IF request_count + 1 >= max
        THEN [requests |-> cleaned, admitted |-> FALSE, remaining |-> 0]
        ELSE [ requests  |-> [cleaned EXCEPT ![identifier] = Append(@, current_time)],
               admitted  |-> TRUE,
               remaining |-> max - request_count - 1 ]

\* check_rate_limit: current_time is read first, _clean_old_requests then reads
\* the clock again (clean_time >= current_time)
check_rate_limit(reqs, default, identifier, max_requests, window_seconds, current_time, clean_time) ==
    LET max == OrDefault(max_requests, default)
        cleaned == clean_old_requests(reqs, identifier, window_seconds, clean_time)
        request_count == Len(cleaned[identifier])
    IN  IF request_count >= max
        THEN [requests |-> cleaned, admitted |-> FALSE, remaining |-> 0]
        ELSE [ requests  |-> [cleaned EXCEPT ![identifier] = Append(@, current_time)],
               admitted  |-> TRUE,
               remaining |-> max - request_count - 1 ]

NoCheck ==
    [ identifier |-> "none", max |-> 0, window |-> 0, at |-> 0, cleaned_at |-> 0,
      pre |-> << >>, admitted |-> FALSE, remaining |-> 0 ]

NoBursts == [i \in Identifiers |-> [start |-> None, k |-> 0, last_admit |-> None]]

\* ------------------------------------------------ jobs (server.py, llm_service.py)
Jobs == 1..NumJobs

\* a null field of a stored document
Null == "null"

NoDocument ==
    [ status |-> "absent", generated_code |-> Null, explanation |-> Null,
      error_message |-> Null, updated_at |-> 0 ]

NoJobs ==
    /\ client_configured = TRUE
    /\ store = [j \in Jobs |-> NoDocument]
    /\ pc = [j \in Jobs |-> "new"]
    /\ attempt = [j \in Jobs |-> 0]
    /\ wake = [j \in Jobs |-> 0]
    /\ gen = [j \in Jobs |-> [kind |-> "none", class |-> "none", cause |-> "none"]]
    /\ log = [j \in Jobs |-> << >>]
    /\ writes = [j \in Jobs |-> << >>]
    /\ trace = [j \in Jobs |-> << >>]

\* --------------------------------------------- the breaker under any caller
NoCall == [op |-> "none", ret |-> TRUE, pre |-> CircuitBreaker(1, 1), at |-> 0]

\* the streak restarts when a success is recorded on a CLOSED breaker and
\* when the breaker closes; every recorded failure extends it
StreakAfter(op, pre, post) ==
    IF op = "record_failure" THEN streak + 1
    ELSE IF op = "record_success" /\ (pre.state = "closed" \/ post.state = "closed")
    THEN 0
    ELSE streak

OpensAfter(op, pre, post) ==
    IF StreakAfter(op, pre, post) = 0 THEN 0
    ELSE IF pre.state = "closed" /\ post.state = "open" THEN opens + 1
    ELSE opens

ProbesAfter(op, pre, post) ==
    IF pre.state # "half_open" /\ post.state = "half_open" THEN 0
    ELSE IF op = "record_success" /\ pre.state = "half_open" THEN probes + 1
    ELSE probes

Called(op, ret, post) ==
    /\ cb' = post
    /\ call' = [op |-> op, ret |-> ret, pre |-> cb, at |-> now]
    /\ prev' = call
    /\ streak' = StreakAfter(op, cb, post)
    /\ opens' = OpensAfter(op, cb, post)
    /\ probes' = ProbesAfter(op, cb, post)
    /\ UNCHANGED <<now, rlVars, jobVars>>

CallCanExecute ==
    LET r == can_execute(cb, now) IN Called("can_execute", r.ret, r.cb)

CallRecordSuccess == Called("record_success", TRUE, record_success(cb))

CallRecordFailure ==
    /\ cb.failure_count < MaxFailureCount
    /\ Called("record_failure", TRUE, record_failure(cb, now))

Tick ==
    /\ now < MaxTime
    /\ now' = now + 1
    /\ UNCHANGED <<cbVars, rlVars, jobVars>>

\* the breaker's callers' bookkeeping before any call
NoBreakerCalls ==
    /\ call = NoCall
    /\ prev = NoCall
    /\ streak = 0
    /\ opens = 0
    /\ probes = 0

\* the clock starts at a positive epoch time; the breaker is built from its
\* configuration (CIRCUIT_BREAKER_THRESHOLD, CIRCUIT_BREAKER_TIMEOUT)
InitCB ==
    /\ now = 1
    /\ \E th \in 1..MaxThreshold, to \in 1..MaxTimeout : cb = CircuitBreaker(th, to)
    /\ NoBreakerCalls
    /\ max_requests_per_minute = MaxRequests
    /\ requests = RateLimiter
    /\ policy = [max_requests |-> None, window_seconds |-> MaxWindow]
    /\ check = NoCheck
    /\ burst = NoBursts
    /\ NoJobs

NextCB == CallCanExecute \/ CallRecordSuccess \/ CallRecordFailure \/ Tick

SpecCB == InitCB /\ [][NextCB]_vars

\* ------------------------------------------------------- breaker properties
LegalEdges ==
    { <<"closed", "open">>, <<"open", "half_open">>,
      <<"half_open", "closed">>, <<"half_open", "open">> }

\* C1: every step that changes `state` follows Closed->Open, Open->HalfOpen,
\* HalfOpen->Closed or HalfOpen->Open, whatever is called and whenever.
C1_OnlyLegalEdges ==
    [][cb'.state # cb.state => <<cb.state, cb'.state>> \in LegalEdges]_vars

\* a failure recorded on an OPEN breaker already past its threshold: the call
\* that would take an illegal edge if record_failure mishandled OPEN
C1_Witness ==
    /\ call.op = "record_failure"
    /\ call.pre.state = "open"
    /\ call.pre.failure_count >= cb.failure_threshold
    /\ cb.state = "open"
    /\ prev.op = "can_execute" /\ ~prev.ret

\* C2: a CLOSED breaker opens exactly at the failure_threshold-th failure of a
\* streak (a success while CLOSED restarts the streak), it opens once per
\* streak, and a can_execute() made right after, before the timeout, is refused.
C2_OpensAtThreshold ==
    /\ cb.state = "closed" => streak < cb.failure_threshold
    /\ opens = (IF streak >= cb.failure_threshold THEN 1 ELSE 0)
    /\ (call.op = "record_failure" /\ call.pre.state = "closed")
          => (cb.state = "open" <=> streak = cb.failure_threshold)
    /\ ( /\ prev.op = "record_failure" /\ prev.pre.state = "closed"
         /\ call.op = "can_execute" /\ call.pre.state = "open"
         /\ call.at - call.pre.last_failure_time < cb.timeout_seconds )
          => (~call.ret /\ cb.state = "open")

\* the threshold-th failure of a streak that a success had restarted has just
\* opened the breaker, and the can_execute() right after it was refused
C2_Witness ==
    /\ cb.failure_threshold >= 2
    /\ prev.op = "record_failure" /\ prev.pre.state = "closed"
    /\ prev.pre.failure_count = cb.failure_threshold - 1
    /\ call.op = "can_execute" /\ call.pre.state = "open" /\ ~call.ret
    /\ cb.state = "open" /\ opens = 1

\* C3: on an OPEN breaker can_execute() returns false and leaves it OPEN while
\* now - last_failure_time < timeout_seconds, and returns true and moves it to
\* HALF_OPEN once now - last_failure_time >= timeout_seconds.
C3_OpenUntilTimeout ==
    (call.op = "can_execute" /\ call.pre.state = "open")
      => IF call.at - call.pre.last_failure_time < call.pre.timeout_seconds
         THEN ~call.ret /\ cb.state = "open"
         ELSE call.ret /\ cb.state = "half_open"

\* a refused check, then the check made exactly when the timeout has elapsed
C3_Witness ==
    /\ prev.op = "can_execute" /\ prev.pre.state = "open" /\ ~prev.ret
    /\ call.op = "can_execute" /\ call.pre.state = "open" /\ call.ret
    /\ call.at - call.pre.last_failure_time = cb.timeout_seconds
    /\ cb.state = "half_open"

\* C4: from HALF_OPEN one failure reopens the breaker with success_count 0;
\* the first success keeps it HALF_OPEN with success_count 1; the second
\* success in a row closes it with failure_count 0 and success_count 0.
C4_HalfOpenProbes ==
    /\ (call.op = "record_failure" /\ call.pre.state = "half_open")
          => (cb.state = "open" /\ cb.success_count = 0)
    /\ (call.op = "record_success" /\ call.pre.state = "half_open")
          => IF probes = 1
             THEN cb.state = "half_open" /\ cb.success_count = 1
             ELSE /\ probes = 2
                  /\ cb.state = "closed"
                  /\ cb.failure_count = 0
                  /\ cb.success_count = 0

\* the second probe success in a row has closed a breaker that had failures
C4_Witness ==
    /\ call.op = "record_success" /\ call.pre.state = "half_open"
    /\ prev.op = "record_success" /\ prev.pre.state = "half_open"
    /\ call.pre.failure_count > 0
    /\ cb.state = "closed" /\ cb.failure_count = 0

\* ---------------------------------------- the rate limiter under any caller
\* a burst starts with the first call for an identifier and with a call made
\* window_seconds or more after the identifier's last admitted call
BurstAfter(b, window_seconds, current_time, admitted) ==
    LET fresh == b.last_admit = None \/ current_time - b.last_admit >= window_seconds
    IN  [ start      |-> IF fresh THEN current_time ELSE b.start,
          k          |-> IF fresh THEN 1 ELSE b.k + 1,
          last_admit |-> IF admitted THEN current_time ELSE b.last_admit ]

CallCheckRateLimit ==
    \E identifier \in Identifiers, d \in 0..ClockSkew :
        LET r == check_rate_limit(requests, max_requests_per_minute, identifier,
                                  policy.max_requests, policy.window_seconds,
                                  now, now + d)
        IN  /\ now + d <= MaxCheckTime
            /\ BurstAfter(burst[identifier], policy.window_seconds, now, r.admitted).k
                 <= OrDefault(policy.max_requests, max_requests_per_minute)
                    + MaxOverflow
            /\ requests' = r.requests
            /\ check' = [ identifier |-> identifier,
                          max        |-> OrDefault(policy.max_requests,
                                                   max_requests_per_minute),
                          window     |-> policy.window_seconds,
                          at         |-> now,
                          cleaned_at |-> now + d,
                          pre        |-> requests[identifier],
                          admitted   |-> r.admitted,
                          remaining  |-> r.remaining ]
            /\ burst' = [burst EXCEPT ![identifier] =
                            BurstAfter(@, policy.window_seconds, now, r.admitted)]
            /\ now' = now + d
            /\ UNCHANGED <<max_requests_per_minute, policy, cbVars, jobVars>>

TickRL ==
    /\ now < MaxCheckTime
    /\ now' = now + 1
    /\ UNCHANGED <<cbVars, rlVars, jobVars>>

\* the limiter is built from MAX_REQUESTS_PER_MINUTE; its callers pass
\* max_requests (None for the default) and window_seconds
InitRL ==
    /\ now = 1
    /\ cb = CircuitBreaker(MaxThreshold, MaxTimeout)
    /\ NoBreakerCalls
    /\ max_requests_per_minute \in 1..MaxRequests
    /\ requests = RateLimiter
    /\ policy \in [ max_requests   : {None} \cup (0..MaxRequests),
                    window_seconds : 1..MaxWindow ]
    /\ check = NoCheck
    /\ burst = NoBursts
    /\ NoJobs

NextRL == CallCheckRateLimit \/ TickRL

SpecRL == InitRL /\ [][NextRL]_vars

\* -------------------------------------------------- rate limiter properties
\* C5: from an empty window, the first max_requests calls made within
\* window_seconds are admitted, the k-th with remaining = max_requests - k; a
\* later call within the same window is refused with remaining 0 and appends
\* nothing.
C5_BurstAdmission ==
    LET id == check.identifier
        b  == burst[id]
    IN  (id \in Identifiers /\ check.cleaned_at - b.start < check.window)
          => IF b.k <= check.max
             THEN /\ check.admitted
                  /\ check.remaining = check.max - b.k
                  /\ Len(requests[id]) = b.k
             ELSE /\ ~check.admitted
                  /\ check.remaining = 0
                  /\ requests[id] = check.pre

\* the call after a full burst, still inside the window, has been refused
C5_Witness ==
    /\ check.identifier \in Identifiers
    /\ check.max >= 2
    /\ burst[check.identifier].k = check.max + 1
    /\ check.cleaned_at - burst[check.identifier].start < check.window
    /\ ~check.admitted
    /\ Len(requests[check.identifier]) = check.max

\* C6: when the window is full and window_seconds have elapsed since the last
\* admitted call (exactly window_seconds included), the next call is admitted
\* with remaining = max_requests - 1, as for an identifier never seen.
C6_WindowExpires ==
    ( /\ check.identifier \in Identifiers
      /\ Len(check.pre) = check.max
      /\ check.at - check.pre[Len(check.pre)] >= check.window )
      => /\ check.admitted
         /\ check.remaining = check.max - 1
         /\ requests[check.identifier] = << check.at >>

\* a full window, and the call made exactly window_seconds after its last entry
C6_Witness ==
    /\ check.identifier \in Identifiers
    /\ check.max >= 2
    /\ Len(check.pre) = check.max
    /\ check.at - check.pre[Len(check.pre)] = check.window
    /\ check.cleaned_at = check.at
    /\ check.admitted

\* the admitted instants of the identifier that lie in (t - window, t], t being
\* the instant of the last call, before that call appended its own
AdmittedInWindow ==
    { i \in 1..Len(check.pre) : check.pre[i] > check.at - check.window }

\* C17: a call is admitted only into a free slot: with the call's own instant
\* the admitted instants in (t - window_seconds, t] never exceed max_requests.
C17_WindowNeverExceeded ==
    (check.identifier \in Identifiers /\ check.admitted)
        => Cardinality(AdmittedInWindow) + 1 <= check.max

\* -------------------------------------------------------- the job orchestrator
\* what a store call (insert_one, update_one) can do: apply and return, raise
\* without applying, or apply and then raise (the acknowledgement is lost)
StoreOutcomes == {"ok", "lost", "late"}

Applied(outcome) == outcome \in {"ok", "late"}
Raised(outcome) == outcome \in {"lost", "late"}

\* the exception classes of llm_service.py and their base classes
Bases(class) ==
    CASE class = "CircuitBreakerOpenError" -> {"CircuitBreakerOpenError", "LLMServiceError", "Exception"}
      [] class = "RateLimitError" -> {"RateLimitError", "LLMServiceError", "Exception"}
      [] class = "LLMServiceError" -> {"LLMServiceError", "Exception"}
      [] OTHER -> {class, "Exception"}

\* retry=retry_if_exception_type(LLMServiceError)
retry_if_exception_type(class) == "LLMServiceError" \in Bases(class)

\* faulty variant: one attempt more than configured
stop_after_attempt_late(attempt_number) == attempt_number > MaxAttempts

\* stop=stop_after_attempt(3)
stop_after_attempt(attempt_number) == attempt_number >= MaxAttempts

RECURSIVE Pow2(_)
Pow2(n) == IF n <= 0 THEN 1 ELSE 2 * Pow2(n - 1)

\* wait=wait_exponential(multiplier=1, min=1, max=10), exp_base 2
wait_exponential(attempt_number) ==
    LET result == WaitMultiplier * Pow2(attempt_number - 1)
        capped == IF result < WaitMax THEN result ELSE WaitMax
    IN  IF capped > WaitMin THEN capped ELSE WaitMin

\* str(e) of what process_generation catches
Message(class) ==
    CASE class = "CircuitBreakerOpenError" -> "LLM service is temporarily unavailable"
      [] class = "LLMServiceError" -> "Failed to generate UI code"
      [] OTHER -> "store error"

\* the caller of the API and the identifier of the outbound limiter
ClientIp == "10.0.0.1"
Outbound == "outbound:llm"

\* check_outbound_rate_limit: 5 requests per 1-second window on "outbound:llm".
\* Nothing in generate_ui_code or process_generation calls it.
check_outbound_rate_limit(reqs, default, current_time, clean_time) ==
    check_rate_limit(reqs, default, Outbound, OutboundMax, OutboundWindow,
                     current_time, clean_time)

\* rate_limit_middleware: check_rate_limit(client_ip) with the default
\* max_requests and the default 60-second window
rate_limit_middleware(reqs, default, client_ip, current_time, clean_time) ==
    check_rate_limit(reqs, default, client_ip, None, InboundWindow,
                     current_time, clean_time)

\* faulty variant: the middleware's verdict is ignored
is_allowed_always(r) == TRUE

\* rate_limit_middleware: `if not is_allowed` answers 429, else call_next
is_allowed(r) == r.admitted

\* faulty variant: the task is scheduled whether or not the insert returned
add_task_regardless(outcome) == TRUE

\* generate_ui: add_task is reached only after the awaited insert_one returned
add_task_reached(outcome) == ~Raised(outcome)

\* get_job_status: 404 when find_one finds no document, else its status
get_job_status(docs, j) ==
    IF docs[j].status = "absent" THEN "404" ELSE docs[j].status

\* POST /api/generate: rate_limit_middleware, then generate_ui: insert the
\* pending document, then schedule process_generation; an insert that raises
\* ends the request with no task
Submit(j) ==
    /\ pc[j] = "new"
    /\ \E d \in 0..ClockSkew :
       LET r == rate_limit_middleware(requests, max_requests_per_minute, ClientIp,
                                      now, now + d)
       IN  /\ requests' = r.requests
           /\ IF ~is_allowed(r)
              THEN /\ pc' = [pc EXCEPT ![j] = "limited"]
                   /\ UNCHANGED store
              ELSE \E outcome \in StoreOutcomes :
                    /\ store' = [store EXCEPT ![j] =
                                    IF Applied(outcome)
                                    THEN [NoDocument EXCEPT !.status = "pending",
                                                           !.updated_at = now]
                                    ELSE @]
                    /\ pc' = [pc EXCEPT ![j] =
                                IF add_task_reached(outcome) THEN "queued" ELSE "rejected"]
    /\ UNCHANGED <<now, cbVars, max_requests_per_minute, policy, check, burst,
                   client_configured, trace, attempt, wake, gen, log, writes>>

\* process_generation: the update to "running", then the call of generate_ui_code
RunJob(j) ==
    /\ pc[j] = "queued"
    /\ \E outcome \in StoreOutcomes :
        /\ store' = [store EXCEPT ![j] =
                        IF Applied(outcome)
                        THEN [@ EXCEPT !.status = "running", !.updated_at = now]
                        ELSE @]
        /\ IF Raised(outcome)
           THEN /\ pc' = [pc EXCEPT ![j] = "except"]
                /\ gen' = [gen EXCEPT ![j] = [kind |-> "not_called", class |-> "StoreError",
                                              cause |-> "store"]]
                /\ UNCHANGED attempt
           ELSE /\ pc' = [pc EXCEPT ![j] = "attempt"]
                /\ attempt' = [attempt EXCEPT ![j] = 1]
                /\ UNCHANGED gen
    /\ UNCHANGED <<now, cbVars, rlVars, client_configured, trace, wake, log, writes>>

\* tenacity after an attempt raised `class`: sleep and retry, or reraise
AfterFailure(j, class, cause) ==
    /\ log' = [log EXCEPT ![j] = Append(@, cause)]
    /\ IF retry_if_exception_type(class) /\ ~stop_after_attempt(attempt[j])
       THEN /\ pc' = [pc EXCEPT ![j] = "backoff"]
            /\ wake' = [wake EXCEPT ![j] = now + wait_exponential(attempt[j])]
            /\ UNCHANGED gen
       ELSE /\ pc' = [pc EXCEPT ![j] = "except"]
            /\ gen' = [gen EXCEPT ![j] = [kind |-> "raised", class |-> class,
                                          cause |-> cause]]
            /\ UNCHANGED wake

\* faulty variant: the breaker is consulted before the first attempt only
breaker_check_first_attempt_only(b, t, attempt_number) ==
    IF attempt_number = 1 THEN can_execute(b, t) ELSE [cb |-> b, ret |-> TRUE]

\* `if not llm_circuit_breaker.can_execute()`: inside the retried function, so
\* made at the start of every attempt
breaker_check(b, t, attempt_number) == can_execute(b, t)

\* one attempt in the trace; `allowed` is what the breaker answers at that instant
Attempted(j, invoked, recorded) ==
    trace' = [trace EXCEPT ![j] =
                Append(@, [ allowed  |-> can_execute(cb, now).ret,
                            invoked  |-> invoked,
                            recorded |-> recorded ])]

Recorded(j, recorded) ==
    trace' = [trace EXCEPT ![j] = [@ EXCEPT ![Len(@)].recorded = recorded]]

\* generate_ui_code up to the awaited API call: the breaker check, the client check
AttemptStart(j) ==
    /\ pc[j] = "attempt"
    /\ LET r == breaker_check(cb, now, attempt[j])
       IN  IF ~r.ret
           THEN /\ cb' = r.cb
                /\ Attempted(j, FALSE, << >>)
                /\ AfterFailure(j, "CircuitBreakerOpenError", "breaker_open")
           ELSE IF ~client_configured
           THEN /\ cb' = record_failure(r.cb, now)
                /\ Attempted(j, FALSE, << "failure" >>)
                /\ AfterFailure(j, "LLMServiceError", "not_configured")
           ELSE /\ cb' = r.cb
                /\ Attempted(j, TRUE, << >>)
                /\ pc' = [pc EXCEPT ![j] = "calling"]
                /\ UNCHANGED <<wake, gen, log>>
    /\ UNCHANGED <<now, call, prev, streak, opens, probes, rlVars,
                   client_configured, store, attempt, writes>>

\* what the awaited API call and the handling of its response can do
CallOutcomes == {"ok", "api_error", "bad_response"}

\* generate_ui_code from the return of the API call on
AttemptEnd(j) ==
    /\ pc[j] = "calling"
    /\ \E outcome \in CallOutcomes :
        IF outcome = "ok"
        THEN /\ cb' = record_success(cb)
             /\ Recorded(j, << "success" >>)
             /\ log' = [log EXCEPT ![j] = Append(@, "ok")]
             /\ gen' = [gen EXCEPT ![j] = [kind |-> "returned", class |-> "none",
                                           cause |-> "ok"]]
             /\ pc' = [pc EXCEPT ![j] = "write_success"]
             /\ UNCHANGED wake
        ELSE IF outcome = "api_error"
        THEN /\ cb' = record_failure(cb, now)
             /\ Recorded(j, << "failure" >>)
             /\ AfterFailure(j, "LLMServiceError", "api_error")
        ELSE /\ cb' = record_failure(record_success(cb), now)
             /\ Recorded(j, << "success", "failure" >>)
             /\ AfterFailure(j, "LLMServiceError", "bad_response")
    /\ UNCHANGED <<now, call, prev, streak, opens, probes, rlVars,
                   client_configured, store, attempt, writes>>

\* tenacity: the backoff sleep is over, the next attempt starts
Retry(j) ==
    /\ pc[j] = "backoff"
    /\ now >= wake[j]
    /\ attempt' = [attempt EXCEPT ![j] = @ + 1]
    /\ pc' = [pc EXCEPT ![j] = "attempt"]
    /\ UNCHANGED <<now, cbVars, rlVars, client_configured, trace, store, wake, gen, log,
                   writes>>

\* process_generation: the update to "success"
WriteSuccess(j) ==
    /\ pc[j] = "write_success"
    /\ \E outcome \in StoreOutcomes :
        /\ store' = [store EXCEPT ![j] =
                        IF Applied(outcome)
                        THEN [@ EXCEPT !.status = "success", !.generated_code = "code",
                                       !.explanation = "explanation",
                                       !.updated_at = now]
                        ELSE @]
        /\ writes' = [writes EXCEPT ![j] = Append(@, "success")]
        /\ IF Raised(outcome)
           THEN /\ pc' = [pc EXCEPT ![j] = "except"]
                /\ gen' = [gen EXCEPT ![j] = [@ EXCEPT !.class = "StoreError"]]
           ELSE /\ pc' = [pc EXCEPT ![j] = "done"]
                /\ UNCHANGED gen
    /\ UNCHANGED <<now, cbVars, rlVars, client_configured, trace, attempt, wake, log>>

\* process_generation: `except Exception`, the update to "failed"; if it raises
\* the exception leaves the background task
WriteFailed(j) ==
    /\ pc[j] = "except"
    /\ \E outcome \in StoreOutcomes :
        /\ store' = [store EXCEPT ![j] =
                        IF Applied(outcome)
                        THEN [@ EXCEPT !.status = "failed",
                                       !.error_message = Message(gen[j].class),
                                       !.updated_at = now]
                        ELSE @]
        /\ writes' = [writes EXCEPT ![j] = Append(@, "failed")]
        /\ pc' = [pc EXCEPT ![j] = IF Raised(outcome) THEN "crashed" ELSE "done"]
    /\ UNCHANGED <<now, cbVars, rlVars, client_configured, trace, attempt, wake, gen, log>>

TickJobs ==
    /\ now < MaxJobTime
    /\ now' = now + 1
    /\ UNCHANGED <<cbVars, rlVars, jobVars>>

\* the service starts with a CLOSED breaker, an empty store and no job; the API
\* key may be missing
Init ==
    /\ now = 1
    /\ \E th \in 1..MaxThreshold, to \in 1..MaxTimeout : cb = CircuitBreaker(th, to)
    /\ NoBreakerCalls
    /\ max_requests_per_minute \in 1..MaxRequests
    /\ requests = RateLimiter
    /\ policy = [max_requests |-> None, window_seconds |-> MaxWindow]
    /\ check = NoCheck
    /\ burst = NoBursts
    /\ client_configured \in BOOLEAN
    /\ store = [j \in Jobs |-> NoDocument]
    /\ pc = [j \in Jobs |-> "new"]
    /\ attempt = [j \in Jobs |-> 0]
    /\ wake = [j \in Jobs |-> 0]
    /\ gen = [j \in Jobs |-> [kind |-> "none", class |-> "none", cause |-> "none"]]
    /\ log = [j \in Jobs |-> << >>]
    /\ writes = [j \in Jobs |-> << >>]
    /\ trace = [j \in Jobs |-> << >>]

Next ==
    \/ \E j \in Jobs : Submit(j)
    \/ \E j \in Jobs : RunJob(j)
    \/ \E j \in Jobs : AttemptStart(j)
    \/ \E j \in Jobs : AttemptEnd(j)
    \/ \E j \in Jobs : Retry(j)
    \/ \E j \in Jobs : WriteSuccess(j)
    \/ \E j \in Jobs : WriteFailed(j)
    \/ TickJobs

Spec == Init /\ [][Next]_vars

\* ------------------------------------------------------- retry properties
Attempts(j) == 1..Len(log[j])

\* C7: an attempt refused by the breaker ends the request: no backoff sleep
\* and no further attempt follows it.
C7_BreakerOpenNotRetried ==
    \A j \in Jobs : \A i \in Attempts(j) :
        log[j][i] = "breaker_open" => (i = Len(log[j]) /\ pc[j] # "backoff")

\* C8: a request makes at most 3 attempts; a failed 3rd attempt propagates its
\* error and nothing follows it; a successful attempt ends the sequence with
\* its result.
C8_AtMostThreeAttempts ==
    \A j \in Jobs :
        LET n == Len(log[j])
        IN  /\ n <= MaxAttempts
            /\ attempt[j] <= MaxAttempts
            /\ \A i \in 1..(n - 1) : log[j][i] # "ok"
            /\ (n > 0 /\ log[j][n] = "ok")
                 => /\ gen[j].kind = "returned"
                    /\ pc[j] \in {"write_success", "done", "except", "crashed"}
            /\ (n = MaxAttempts /\ log[j][n] # "ok")
                 => /\ gen[j].kind = "raised"
                    /\ gen[j].cause = log[j][n]
                    /\ pc[j] \in {"except", "done", "crashed"}

\* one request has failed three times and raised its last error, another has
\* succeeded on its second attempt
C8_Witness ==
    \E j, k \in Jobs :
        /\ Len(log[j]) = MaxAttempts
        /\ log[j][MaxAttempts] = "api_error"
        /\ gen[j].kind = "raised" /\ gen[j].class = "LLMServiceError"
        /\ log[k] = << "api_error", "ok" >>
        /\ gen[k].kind = "returned"

FatalCauses == {"not_configured", "bad_response"}

\* C9: an attempt that fails with a fatal error (client not configured, an
\* error while handling the response) is the request's last: the error
\* propagates with no backoff sleep and no further attempt.
C9_FatalNotRetried ==
    \A j \in Jobs : \A i \in Attempts(j) :
        log[j][i] \in FatalCauses => (i = Len(log[j]) /\ pc[j] # "backoff")

\* --------------------------------------------------------- job properties
LegalStatusEdges ==
    { <<"absent", "pending">>, <<"pending", "running">>,
      <<"running", "success">>, <<"running", "failed">> }

\* C10: a job's stored status only moves Pending->Running->{Success, Failed},
\* and a document whose status is Success or Failed is never changed again.
C10_StatusLifecycle ==
    [][\A j \in Jobs :
          /\ store'[j].status # store[j].status
               => <<store[j].status, store'[j].status>> \in LegalStatusEdges
          /\ store[j].status \in {"success", "failed"} => store'[j] = store[j]]_vars

Terminal == {"success", "failed"}

\* the background task of the job has ended: returned, or left by an exception
Ended(j) == pc[j] \in {"done", "crashed"}

\* C11: a run of process_generation issues exactly one terminal-status update:
\* never a Success and a Failed one, and one by the time the task has ended.
C11_OneTerminalWrite ==
    \A j \in Jobs :
        /\ Len(writes[j]) <= 1
        /\ Ended(j) => Len(writes[j]) = 1

\* C12: a Success document has the generated code and no error message, a
\* Failed one an error message and no generated code, a Pending or Running
\* one neither.
C12_RecordShape ==
    \A j \in Jobs :
        LET d == store[j]
        IN  /\ d.status = "success"
                 => (d.generated_code # Null /\ d.error_message = Null)
            /\ d.status = "failed"
                 => (d.error_message # Null /\ d.generated_code = Null)
            /\ d.status \in {"pending", "running"}
                 => (d.generated_code = Null /\ d.error_message = Null)

\* C13: no exception leaves process_generation: whatever raises in it ends in
\* a Failed document and a task that returns.
C13_NothingEscapes ==
    \A j \in Jobs : pc[j] # "crashed"

\* C14: no job stays Pending or Running for ever; stated for the runs that
\* end: once the job's task has ended its document is Success or Failed.
C14_EndsTerminal ==
    \A j \in Jobs : Ended(j) => store[j].status \in Terminal

\* ---------------------------------------------------------------------------
\* the request boundary: the status query, the inbound and outbound limiters

\* the requests that were handed to generate_ui
Handled == { j \in Jobs : pc[j] \notin {"new", "limited"} }

\* the jobs whose submit returned a job identifier
Accepted == { j \in Jobs : pc[j] \notin {"new", "limited", "rejected"} }

\* C15: once submit has returned a job identifier the status query never answers
\* 404 for it, it answers "pending" until the job's task has started, and so the
\* task never starts on a job whose pending document is not in the store.
C15_PendingOnceSubmitted ==
    \A j \in Accepted :
        /\ get_job_status(store, j) # "404"
        /\ pc[j] = "queued" => get_job_status(store, j) = "pending"

C15_Witness ==
    \E j, k \in Jobs :
        /\ pc[j] = "queued" /\ get_job_status(store, j) = "pending"
        /\ pc[k] = "done" /\ get_job_status(store, k) \in Terminal

\* C16: every call of the generation API is preceded by an outbound rate-limit
\* check that admitted it, so the "outbound:llm" window holds an entry whenever
\* an attempt has invoked the API.
C16_OutboundChecked ==
    \A j \in Jobs : \A i \in 1..Len(trace[j]) :
        trace[j][i].invoked => requests[Outbound] # << >>

\* C18: a request the inbound limiter rejects leaves no document, no task, no
\* attempt and no update behind, and every request that was handled is one the
\* inbound check admitted: the handled requests are no more than the entries of
\* the caller's window, which never exceed the limit.
C18_RejectedNeverHandled ==
    /\ \A j \in Jobs :
          pc[j] = "limited" =>
              /\ store[j].status = "absent"
              /\ attempt[j] = 0
              /\ trace[j] = << >>
              /\ writes[j] = << >>
    /\ Cardinality(Handled) <= Len(requests[ClientIp])
    /\ Len(requests[ClientIp]) <= max_requests_per_minute

C18_Witness ==
    \E j, k \in Jobs :
        /\ pc[j] = "limited"
        /\ pc[k] = "done"
        /\ Len(requests[ClientIp]) = max_requests_per_minute

\* ---------------------------------------------------------------------------
\* the breaker inside the retry sequence

\* C19: the breaker is asked at the start of every attempt of a retry sequence,
\* and the API is never invoked on an attempt the breaker refused: such an
\* attempt ends as breaker-open, whichever job opened the breaker.
C19_CheckedEveryAttempt ==
    \A j \in Jobs : \A i \in 1..Len(trace[j]) :
        /\ trace[j][i].invoked => trace[j][i].allowed
        /\ ~trace[j][i].allowed =>
              /\ ~trace[j][i].invoked
              /\ i <= Len(log[j])
              /\ log[j][i] = "breaker_open"

C19_Witness ==
    \E j, k \in Jobs :
        /\ j # k
        /\ cb.failure_threshold = 2
        /\ Len(trace[j]) >= 2
        /\ trace[j][1].invoked /\ log[j][1] = "api_error"
        /\ ~trace[j][2].allowed /\ ~trace[j][2].invoked
        /\ Len(log[k]) >= 1 /\ log[k][1] = "api_error"

\* C20: an attempt records at most one outcome on the breaker, none when the
\* breaker refused it, and an attempt that recorded a success returns its result.
C20_OneOutcomeRecorded ==
    \A j \in Jobs : \A i \in 1..Len(trace[j]) :
        /\ Len(trace[j][i].recorded) <= 1
        /\ ~trace[j][i].allowed => trace[j][i].recorded = << >>
        /\ trace[j][i].recorded = << "success" >> =>
              /\ i <= Len(log[j])
              /\ log[j][i] = "ok"

\* ---------------------------------------------------------------------------
\* the breaker's counters

\* C21: a failure recorded while the breaker is OPEN, by an attempt that was
\* admitted before it opened, leaves failure_count and last_failure_time as they
\* were, so the instant of the next probe is not moved.
C21_LateFailureIgnored ==
    [][ \A j \in Jobs :
          (pc[j] = "calling" /\ pc'[j] # "calling" /\ cb.state = "open") =>
              /\ cb'.failure_count = cb.failure_count
              /\ cb'.last_failure_time = cb.last_failure_time ]_vars

\* C22: when the client is not configured, so that every job fails for that
\* reason only, the breaker counts no failure and stays CLOSED.
C22_MisconfigurationNotCounted ==
    ~client_configured => (cb.failure_count = 0 /\ cb.state = "closed")

\* the instants of the model's clock and beyond, up to one timeout after its end
Instants == 0..(MaxTime + MaxTimeout)

\* C23: a CLOSED breaker has failure_count below the threshold; success_count
\* is 0 when CLOSED or OPEN and 0 or 1 when HALF_OPEN; an OPEN breaker has its
\* last_failure_time set, so at every instant from last_failure_time +
\* timeout_seconds on can_execute admits a probe and moves it to HALF_OPEN.
C23_CounterInvariant ==
    /\ cb.state = "closed" =>
          /\ cb.failure_count < cb.failure_threshold
          /\ cb.success_count = 0
    /\ cb.state = "half_open" => cb.success_count \in {0, 1}
    /\ cb.state = "open" =>
          /\ cb.success_count = 0
          /\ Truthy(cb.last_failure_time)
          /\ \A t \in Instants :
                t - cb.last_failure_time >= cb.timeout_seconds =>
                    /\ can_execute(cb, t).ret
                    /\ can_execute(cb, t).cb.state = "half_open"

\* a probe sequence that counted one success and then failed: the breaker is
\* OPEN again, for the second time, with its timeout running
C23_Witness ==
    /\ cb.state = "open"
    /\ call.op = "record_failure"
    /\ call.pre.state = "half_open"
    /\ call.pre.success_count = 1
    /\ now - cb.last_failure_time < cb.timeout_seconds

====
